---------------------------- MODULE Spec2Model ----------------------------
(***************************************************************************)
(* A model of PDFProcessor (src/extract_and_chunk.py): the ray-casting     *)
(* containment test, the paragraph-in-table classifier, the table          *)
(* renderer, the page-number resolver and process_pdf, which drives them.  *)
(*                                                                         *)
(* Text is modelled as a sequence of one-character strings, so that        *)
(* str.strip, str.join, int() and f-string formatting are computed.        *)
(* Coordinates are exact rationals: a point is [x, y, d] and stands for    *)
(* (x/d, y/d); polygon vertices are integer points [x, y].                 *)
(***************************************************************************)
EXTENDS Integers, Sequences

(***************************************************************************)
(* Bounds of the model.                                                    *)
(***************************************************************************)
\* longest page-number array given to the resolver on its own
MaxLen == 6
\* most cells of a table given to the renderer on its own
MaxCells == 2
\* largest row index and largest column index of such a cell
MaxRow == 1
MaxCol == 1
\* rectangles of the containment test have corners in 0..MaxCoord
MaxCoord == 2
\* most tables and most paragraphs of an analysis result
MaxTables == 2
MaxParagraphs == 3

(***************************************************************************)
(* Text.                                                                   *)
(***************************************************************************)
\* the value page_numbers holds for a paragraph that is no page number
Sentinel == -1

\* the characters str.strip() removes
Whitespace == {" ", "\t", "\n", "\r"}

Digits == <<"0", "1", "2", "3", "4", "5", "6", "7", "8", "9">>

Max(a, b) == IF a >= b THEN a ELSE b
Min(a, b) == IF a <= b THEN a ELSE b

RECURSIVE lstrip(_)
lstrip(s) == IF s # <<>> /\ Head(s) \in Whitespace THEN lstrip(Tail(s)) ELSE s

RECURSIVE rstrip(_)
rstrip(s) ==
    IF s # <<>> /\ s[Len(s)] \in Whitespace
    THEN rstrip(SubSeq(s, 1, Len(s) - 1))
    ELSE s

\* str.strip()
strip(s) == rstrip(lstrip(s))

\* sep.join(items)
RECURSIVE join(_, _)
join(sep, items) ==
    IF items = <<>> THEN <<>>
    ELSE IF Len(items) = 1 THEN items[1]
    ELSE items[1] \o sep \o join(sep, Tail(items))

\* the decimal digits of n >= 0
RECURSIVE NatToStr(_)
NatToStr(n) ==
    IF n < 10 THEN <<Digits[n + 1]>>
    ELSE NatToStr(n \div 10) \o <<Digits[(n % 10) + 1]>>

\* str(n), as an f-string formats an int
IntToStr(n) == IF n < 0 THEN <<"-">> \o NatToStr(-n) ELSE NatToStr(n)

DigitValue(c) == CHOOSE d \in 0..9 : Digits[d + 1] = c

IsDigit(c) == \E d \in 0..9 : Digits[d + 1] = c

RECURSIVE DigitsValue(_, _)
DigitsValue(s, acc) ==
    IF s = <<>> THEN acc
    ELSE DigitsValue(Tail(s), 10 * acc + DigitValue(Head(s)))

\* int(s): surrounding whitespace is ignored, one sign is allowed, the rest
\* must be decimal digits; anything else raises ValueError
ParseInt(s) ==
    LET t == strip(s)
        signed == t # <<>> /\ Head(t) \in {"-", "+"}
        body == IF signed THEN Tail(t) ELSE t
    IN IF body # <<>> /\ \A i \in 1..Len(body) : IsDigit(body[i])
       THEN [ok |-> TRUE,
             val |-> IF signed /\ Head(t) = "-"
                     THEN 0 - DigitsValue(body, 0)
                     ELSE DigitsValue(body, 0)]
       ELSE [ok |-> FALSE, val |-> 0]

(***************************************************************************)
(* _is_point_in_polygon: ray casting.                                      *)
(***************************************************************************)
\* x <= xinters, where xinters = (y - p1y) * (p2x - p1x) / (p2y - p1y) + p1x,
\* for the point (x/d, y/d); p1y # p2y wherever this is evaluated
XLeqXinters(point, p1, p2) ==
    LET dy == p2.y - p1.y
        dx == p2.x - p1.x
        lhs == (point.x - point.d * p1.x) * dy
        rhs == (point.y - point.d * p1.y) * dx
    IN IF dy > 0 THEN lhs <= rhs ELSE lhs >= rhs

\* the condition under which one edge p1 -> p2 flips `inside`
EdgeToggles(point, p1, p2) ==
    /\ point.y > point.d * Min(p1.y, p2.y)
    /\ point.y <= point.d * Max(p1.y, p2.y)
    /\ point.x <= point.d * Max(p1.x, p2.x)
    /\ (p1.x = p2.x \/ XLeqXinters(point, p1, p2))

\* the loop `for i in range(n + 1)` from i on, to i = upto; p1 is the
\* previous vertex (polygon[0] before the first round)
RECURSIVE RayCast(_, _, _, _, _, _)
RayCast(point, poly, i, upto, p1, flag) ==
    IF i > upto THEN flag
    ELSE LET p2 == poly[(i % Len(poly)) + 1]
         IN RayCast(point, poly, i + 1, upto, p2,
                    IF EdgeToggles(point, p1, p2) THEN ~flag ELSE flag)

\* range(n) instead of range(n + 1): the closing edge is never tested
is_point_in_polygon_open(point, poly) ==
    RayCast(point, poly, 0, Len(poly) - 1, poly[1], FALSE)

is_point_in_polygon(point, poly) ==
    RayCast(point, poly, 0, Len(poly), poly[1], FALSE)

(***************************************************************************)
(* _is_paragraph_in_table.                                                 *)
(***************************************************************************)
RECURSIVE SumX(_)
SumX(poly) == IF poly = <<>> THEN 0 ELSE Head(poly).x + SumX(Tail(poly))

RECURSIVE SumY(_)
SumY(poly) == IF poly = <<>> THEN 0 ELSE Head(poly).y + SumY(Tail(poly))

\* (center_x, center_y): the unweighted mean of the vertices
Centre(poly) == [x |-> SumX(poly), y |-> SumY(poly), d |-> Len(poly)]

\* paragraph_bounding_regions[0] instead of the middle region
CentreLineMutant(regions) == regions[1]

\* paragraph_bounding_regions[len(paragraph_bounding_regions) // 2]
CentreLine(regions) == regions[(Len(regions) \div 2) + 1]

\* the loop over table_polygons, returning at the first hit
RECURSIVE InAnyPolygon(_, _)
InAnyPolygon(point, polys) ==
    IF polys = <<>> THEN FALSE
    ELSE IF is_point_in_polygon(point, Head(polys)) THEN TRUE
    ELSE InAnyPolygon(point, Tail(polys))

\* regions is not empty here: process_pdf raises IndexError before the call
\* otherwise (see FilterParagraphs)
is_paragraph_in_table(regions, polys) ==
    InAnyPolygon(Centre(CentreLine(regions).polygon), polys)

(***************************************************************************)
(* convert_table_to_markdown.  A cell is [row_index, column_index,         *)
(* content]; rows_dict is modelled as one function on <<row, col>> pairs.  *)
(***************************************************************************)
Put(dict, key, val) ==
    [k \in (DOMAIN dict) \cup {key} |-> IF k = key THEN val ELSE dict[k]]

\* rows_dict[row][col] = cell['content'], not stripped
RECURSIVE RowsDictNoStrip(_, _)
RowsDictNoStrip(cells, dict) ==
    IF cells = <<>> THEN dict
    ELSE LET cell == Head(cells)
         IN RowsDictNoStrip(Tail(cells),
                Put(dict, <<cell.row_index, cell.column_index>>,
                    cell.content))

\* Step 1, rows_dict[row][col] = content: a later cell overwrites
RECURSIVE RowsDict(_, _)
RowsDict(cells, dict) ==
    IF cells = <<>> THEN dict
    ELSE LET cell == Head(cells)
         IN RowsDict(Tail(cells),
                Put(dict, <<cell.row_index, cell.column_index>>,
                    strip(cell.content)))

\* Step 1, max_row = max(max_row, row), from 0
RECURSIVE MaxRowOf(_, _)
MaxRowOf(cells, m) ==
    IF cells = <<>> THEN m
    ELSE MaxRowOf(Tail(cells), Max(m, Head(cells).row_index))

\* max_col = col: the column of the last cell, not the largest
MaxColOfLastCell(cells, m) ==
    IF cells = <<>> THEN m ELSE cells[Len(cells)].column_index

\* Step 1, max_col = max(max_col, col), from 0
RECURSIVE MaxColOf(_, _)
MaxColOf(cells, m) ==
    IF cells = <<>> THEN m
    ELSE MaxColOf(Tail(cells), Max(m, Head(cells).column_index))

\* range(max_row) for range(max_row + 1): the grid without its last row
TableRowsShort(cells) ==
    LET dict == RowsDict(cells, <<>>)
    IN [r \in 1..MaxRowOf(cells, 0) |->
          [c \in 1..(MaxColOf(cells, 0) + 1) |->
             IF <<r - 1, c - 1>> \in DOMAIN dict
             THEN dict[<<r - 1, c - 1>>] ELSE <<>>]]

\* Step 2, table_rows: rows_dict[row_index].get(col_index, "")
TableRows(cells) ==
    LET dict == RowsDict(cells, <<>>)
    IN [r \in 1..(MaxRowOf(cells, 0) + 1) |->
          [c \in 1..(MaxColOf(cells, 0) + 1) |->
             IF <<r - 1, c - 1>> \in DOMAIN dict
             THEN dict[<<r - 1, c - 1>>] ELSE <<>>]]

\* "| " + " | ".join(row) + " |"
row_to_md(row) == <<"|", " ">> \o join(<<" ", "|", " ">>, row) \o <<" ", "|">>

\* " --- |" * n
RECURSIVE Dashes(_)
Dashes(n) ==
    IF n = 0 THEN <<>> ELSE <<" ", "-", "-", "-", " ", "|">> \o Dashes(n - 1)

\* Step 3, markdown_output: the header, the separator, the other rows
MarkdownOutput(table_rows) ==
    <<row_to_md(table_rows[1]), <<"|">> \o Dashes(Len(table_rows[1]))>>
    \o [r \in 1..(Len(table_rows) - 1) |-> row_to_md(table_rows[r + 1])]

\* what the call ends in: the text, or IndexError where table_rows[0] is
\* read from an empty list
convert_table_to_markdown(table_data) ==
    LET table_rows == TableRows(table_data)
    IN IF table_rows = <<>>
       THEN [error |-> "IndexError", text |-> <<>>]
       ELSE [error |-> "none",
             text |-> join(<<"\n">>, MarkdownOutput(table_rows))]

(***************************************************************************)
(* replace_with_nearest_positive.                                          *)
(***************************************************************************)
\* the right-to-left loop with `last` never updated
RECURSIVE RightToLeftNoCarry(_, _, _)
RightToLeftNoCarry(a, i, lastv) ==
    IF i < 1 THEN a
    ELSE LET v == IF a[i] # Sentinel THEN a[i] ELSE lastv
         IN RightToLeftNoCarry([a EXCEPT ![i] = v], i - 1, lastv)

\* the right-to-left loop from index i (1-based) down, `last` carried
RECURSIVE RightToLeft(_, _, _)
RightToLeft(a, i, lastv) ==
    IF i < 1 THEN a
    ELSE LET v == IF a[i] # Sentinel THEN a[i] ELSE lastv
         IN RightToLeft([a EXCEPT ![i] = v], i - 1, v)

\* `last` when the right-to-left loop ends
LastAfterRightToLeft(a) ==
    IF a = <<>> THEN Sentinel ELSE RightToLeft(a, Len(a), Sentinel)[1]

\* the last known value, where the code takes the first
LastKnown(a) ==
    IF \E i \in 1..Len(a) : a[i] # Sentinel
    THEN a[CHOOSE i \in 1..Len(a) :
             a[i] # Sentinel /\ \A j \in (i + 1)..Len(a) : a[j] = Sentinel]
    ELSE Sentinel

\* next((x for x in arr if x != -1), 0): another default
FirstKnownOrZero(a) ==
    IF \E i \in 1..Len(a) : a[i] # Sentinel
    THEN a[CHOOSE i \in 1..Len(a) :
             a[i] # Sentinel /\ \A j \in 1..(i - 1) : a[j] = Sentinel]
    ELSE 0

\* next((x for x in arr if x != -1), -1)
FirstKnown(a) ==
    IF \E i \in 1..Len(a) : a[i] # Sentinel
    THEN a[CHOOSE i \in 1..Len(a) :
             a[i] # Sentinel /\ \A j \in 1..(i - 1) : a[j] = Sentinel]
    ELSE Sentinel

\* the final loop over range(len(arr) - 1), into a new list
SweepShort(a, lastv) ==
    [i \in 1..(Len(a) - 1) |-> IF a[i] = Sentinel THEN lastv ELSE a[i]]

\* the final loop: arr[i] = last if arr[i] == -1 else arr[i]
Sweep(a, lastv) == [i \in 1..Len(a) |-> IF a[i] = Sentinel THEN lastv ELSE a[i]]

(***************************************************************************)
(* The inputs.                                                             *)
(***************************************************************************)
SeqsUpTo(S, n) == UNION {[1..k -> S] : k \in 0..n}

Pt(px, py) == [x |-> px, y |-> py]

\* the four corners of a rectangle, in cyclic order from (x1, y1)
Rect(x1, y1, x2, y2) == <<Pt(x1, y1), Pt(x2, y1), Pt(x2, y2), Pt(x1, y2)>>

Reverse(s) == [i \in 1..Len(s) |-> s[Len(s) + 1 - i]]

Rotate(s, k) == [i \in 1..Len(s) |-> s[((i - 1 + k) % Len(s)) + 1]]

\* every axis-aligned rectangle with corners in 0..MaxCoord, in either
\* orientation and from any starting vertex
Rectangles ==
    {Rotate(r, k) :
       r \in UNION {{Rect(x1, y1, x2, y2), Reverse(Rect(x1, y1, x2, y2))} :
                      <<x1, y1, x2, y2>> \in
                        {q \in (0..MaxCoord) \X (0..MaxCoord)
                                 \X (0..MaxCoord) \X (0..MaxCoord) :
                           q[1] < q[3] /\ q[2] < q[4]}},
       k \in 0..3}

\* the points of the half-integer grid around those rectangles
GridPoints ==
    {[x |-> px, y |-> py, d |-> 2] :
       px \in (-1)..(2 * MaxCoord + 2), py \in (-1)..(2 * MaxCoord + 2)}

\* the cell contents the renderer is given
CellContents == {<<" ", "a">>, <<"a">>, <<"b", "\n">>}

Cells ==
    [row_index : 0..MaxRow, column_index : 0..MaxCol, content : CellContents]

\* the cells {(0,0,A), (0,1,B), (1,0,C)}: two rows, the second one short
ExampleTable ==
    << [row_index |-> 0, column_index |-> 0, content |-> <<" ", "a">>],
       [row_index |-> 0, column_index |-> 1, content |-> <<"b", "\n">>],
       [row_index |-> 1, column_index |-> 0, content |-> <<"a">>] >>

\* the values of a page-number array: the sentinel and known pages
PageValues == {Sentinel, 3, 4, 5}

\* the regions of the analysis results: two tables, and paragraphs outside
\* both, inside the first and inside the second
TableRegionA == [polygon |-> Rect(0, 0, 4, 4)]
TableRegionB == [polygon |-> Rect(6, 0, 10, 4)]
ParaOutside == [polygon |-> Rect(0, 6, 4, 8)]
ParaInA == [polygon |-> Rect(1, 1, 3, 3)]
ParaInB == [polygon |-> Rect(7, 1, 9, 2)]

Cell(r, c, txt) == [row_index |-> r, column_index |-> c, content |-> txt]

TableSamples ==
    { [cells |-> <<Cell(0, 0, <<"a", " ">>), Cell(1, 0, <<" ", "b">>)>>,
       bounding_regions |-> <<TableRegionA>>],
      [cells |-> <<>>, bounding_regions |-> <<TableRegionB>>],
      [cells |-> <<Cell(0, 1, <<"a">>)>>, bounding_regions |-> <<>>] }

ParagraphSamples ==
    { [content |-> <<"a">>, role |-> "none",
       bounding_regions |-> <<ParaOutside>>],
      [content |-> <<"b">>, role |-> "none",
       bounding_regions |-> <<ParaInA>>],
      [content |-> <<"3">>, role |-> "pageNumber",
       bounding_regions |-> <<ParaOutside>>],
      [content |-> <<" ", "5">>, role |-> "pageNumber",
       bounding_regions |-> <<ParaOutside, ParaInB>>],
      [content |-> <<"x">>, role |-> "pageNumber",
       bounding_regions |-> <<ParaOutside>>],
      [content |-> <<"b">>, role |-> "none", bounding_regions |-> <<>>] }

AnalysisResults ==
    [tables : SeqsUpTo(TableSamples, MaxTables),
     paragraphs : SeqsUpTo(ParagraphSamples, MaxParagraphs)]

(***************************************************************************)
(* The state.                                                              *)
(***************************************************************************)
VARIABLES
    pc,                    \* where the call stands
    result,                \* poller.result(): the analysis result
    tables,                \* process_pdf's locals
    table_polygons,
    extracted_paragraphs,
    page_numbers,          \* as built from the roles, before the resolver
    arr,                   \* the resolver's list
    last,                  \* the resolver's `last`
    ret,                   \* what process_pdf returns, or what it raises
                           \* and the source line that raises it
    table_data,            \* convert_table_to_markdown's argument
    markdown_table,        \* and what it ends in
    point,                 \* _is_point_in_polygon's arguments
    polygon,
    inside                 \* and its result

vars == <<pc, result, tables, table_polygons, extracted_paragraphs,
          page_numbers, arr, last, ret, table_data, markdown_table,
          point, polygon, inside>>

pipelineVars == <<result, tables, table_polygons, extracted_paragraphs, ret>>
resolverVars == <<page_numbers, arr, last>>
tableVars == <<table_data, markdown_table>>
geometryVars == <<point, polygon, inside>>

NoResult == [tables |-> <<>>, paragraphs |-> <<>>]
NoReturn ==
    [status |-> "pending", line |-> 0, text |-> <<>>, tables |-> <<>>,
     chunks |-> <<>>, metadatas |-> <<>>]
NoMarkdown == [error |-> "pending", text |-> <<>>]
NoPoint == [x |-> 0, y |-> 0, d |-> 1]

PipelineIdle ==
    /\ result = NoResult
    /\ tables = <<>>
    /\ table_polygons = <<>>
    /\ extracted_paragraphs = <<>>
    /\ ret = NoReturn

ResolverIdle ==
    /\ page_numbers = <<>>
    /\ arr = <<>>
    /\ last = Sentinel

TableIdle ==
    /\ table_data = <<>>
    /\ markdown_table = NoMarkdown

GeometryIdle ==
    /\ point = NoPoint
    /\ polygon = <<>>
    /\ inside = FALSE

(***************************************************************************)
(* process_pdf, from the analysis result on.                               *)
(***************************************************************************)
\* the polygons of one table's bounding regions, if it has any
RECURSIVE RegionPolygons(_)
RegionPolygons(regions) ==
    IF regions = <<>> THEN <<>>
    ELSE <<Head(regions).polygon>> \o RegionPolygons(Tail(regions))

\* table_polygons, appended to table by table
RECURSIVE TablePolygons(_)
TablePolygons(ts) ==
    IF ts = <<>> THEN <<>>
    ELSE RegionPolygons(Head(ts).bounding_regions) \o TablePolygons(Tail(ts))

\* the paragraphs kept by the loop over result.paragraphs
RECURSIVE KeptParagraphs(_, _)
KeptParagraphs(ps, polys) ==
    IF ps = <<>> THEN <<>>
    ELSE IF ~is_paragraph_in_table(Head(ps).bounding_regions, polys)
    THEN <<Head(ps)>> \o KeptParagraphs(Tail(ps), polys)
    ELSE KeptParagraphs(Tail(ps), polys)

\* extracted_paragraphs_contents: the contents of extracted_paragraphs
Contents(ps) == [i \in 1..Len(ps) |-> ps[i].content]

\* "Page {i}"
PageCitation(n) == <<"P", "a", "g", "e", " ">> \o IntToStr(n)

\* "Table: {i}": the tables numbered from 0
TableCitationFromZero(i) ==
    <<"T", "a", "b", "l", "e", ":", " ">> \o IntToStr(i)

\* "Table: {i+1}"
TableCitation(i) == <<"T", "a", "b", "l", "e", ":", " ">> \o IntToStr(i + 1)

Init ==
    /\ pc = "tables"
    /\ result \in AnalysisResults
    /\ tables = <<>>
    /\ table_polygons = <<>>
    /\ extracted_paragraphs = <<>>
    /\ ret = NoReturn
    /\ ResolverIdle
    /\ TableIdle
    /\ GeometryIdle

\* the loop over result.tables
ExtractTables ==
    /\ pc = "tables"
    /\ tables' = [i \in 1..Len(result.tables) |-> result.tables[i].cells]
    /\ table_polygons' = TablePolygons(result.tables)
    /\ pc' = "paragraphs"
    /\ UNCHANGED <<result, extracted_paragraphs, ret>>
    /\ UNCHANGED <<resolverVars, tableVars, geometryVars>>

\* the loop over result.paragraphs; indexing the regions of a paragraph
\* that has none raises IndexError
FilterParagraphs ==
    /\ pc = "paragraphs"
    /\ IF \E i \in 1..Len(result.paragraphs) :
            result.paragraphs[i].bounding_regions = <<>>
       THEN /\ pc' = "error"
            /\ ret' = [ret EXCEPT !.status = "IndexError", !.line = 50]
            /\ UNCHANGED extracted_paragraphs
       ELSE /\ pc' = "page_numbers"
            /\ extracted_paragraphs' =
                 KeptParagraphs(result.paragraphs, table_polygons)
            /\ UNCHANGED ret
    /\ UNCHANGED <<result, tables, table_polygons>>
    /\ UNCHANGED <<resolverVars, tableVars, geometryVars>>

\* the loop that builds page_numbers; int() raises ValueError
BuildPageNumbers ==
    /\ pc = "page_numbers"
    /\ IF \E i \in 1..Len(extracted_paragraphs) :
            /\ extracted_paragraphs[i].role = "pageNumber"
            /\ ~ParseInt(extracted_paragraphs[i].content).ok
       THEN /\ pc' = "error"
            /\ ret' = [ret EXCEPT !.status = "ValueError", !.line = 164]
            /\ UNCHANGED <<page_numbers, arr>>
       ELSE /\ pc' = "resolve_pass1"
            /\ page_numbers' =
                 [i \in 1..Len(extracted_paragraphs) |->
                    IF extracted_paragraphs[i].role = "pageNumber"
                    THEN ParseInt(extracted_paragraphs[i].content).val
                    ELSE Sentinel]
            /\ arr' = page_numbers'
            /\ UNCHANGED ret
    /\ UNCHANGED <<result, tables, table_polygons, extracted_paragraphs, last>>
    /\ UNCHANGED <<tableVars, geometryVars>>

\* replace_with_nearest_positive: the right-to-left pass
RightToLeftPass ==
    /\ pc = "resolve_pass1"
    /\ arr' = RightToLeft(arr, Len(arr), Sentinel)
    /\ last' = LastAfterRightToLeft(arr)
    /\ pc' = "resolve_pass2"
    /\ UNCHANGED <<page_numbers, pipelineVars, tableVars, geometryVars>>

\* replace_with_nearest_positive: the leftmost known value, the final loop
\* and the return
LeftmostSweep ==
    /\ pc = "resolve_pass2"
    /\ last' = FirstKnown(arr)
    /\ arr' = Sweep(arr, last')
    /\ pc' = "resolved"
    /\ UNCHANGED <<page_numbers, pipelineVars, tableVars, geometryVars>>

\* metadatas, chunks and the returned dictionary
BuildOutput ==
    /\ pc = "resolved"
    /\ LET rendered == [i \in 1..Len(tables) |->
                          convert_table_to_markdown(tables[i])]
           contents == Contents(extracted_paragraphs)
       IN IF \E i \in 1..Len(rendered) : rendered[i].error # "none"
          THEN /\ pc' = "error"
               /\ ret' = [ret EXCEPT !.status = "IndexError", !.line = 152]
          ELSE /\ pc' = "done"
               /\ ret' =
                    [status |-> "returned",
                     line |-> 0,
                     text |-> join(<<"\n">>, contents),
                     tables |-> tables,
                     chunks |-> contents \o
                                [i \in 1..Len(rendered) |-> rendered[i].text],
                     metadatas |->
                        [i \in 1..Len(arr) |-> PageCitation(arr[i])] \o
                        [i \in 1..Len(result.tables) |-> TableCitation(i - 1)]]
    /\ UNCHANGED <<result, tables, table_polygons, extracted_paragraphs>>
    /\ UNCHANGED <<resolverVars, tableVars, geometryVars>>

Next ==
    \/ ExtractTables
    \/ FilterParagraphs
    \/ BuildPageNumbers
    \/ RightToLeftPass
    \/ LeftmostSweep
    \/ BuildOutput

Spec == Init /\ [][Next]_vars

(***************************************************************************)
(* replace_with_nearest_positive on its own.                               *)
(***************************************************************************)
ResolverInit ==
    /\ pc = "resolve_pass1"
    /\ page_numbers \in SeqsUpTo(PageValues, MaxLen)
    /\ arr = page_numbers
    /\ last = Sentinel
    /\ PipelineIdle
    /\ TableIdle
    /\ GeometryIdle

ResolverNext == RightToLeftPass \/ LeftmostSweep

ResolverSpec == ResolverInit /\ [][ResolverNext]_vars

FairResolverSpec == ResolverSpec /\ WF_vars(ResolverNext)

(***************************************************************************)
(* convert_table_to_markdown on its own.                                   *)
(***************************************************************************)
TableInit ==
    /\ pc = "render"
    /\ table_data \in SeqsUpTo(Cells, MaxCells) \cup {ExampleTable}
    /\ markdown_table = NoMarkdown
    /\ PipelineIdle
    /\ ResolverIdle
    /\ GeometryIdle

Render ==
    /\ pc = "render"
    /\ markdown_table' = convert_table_to_markdown(table_data)
    /\ pc' = "rendered"
    /\ UNCHANGED <<table_data, pipelineVars, resolverVars, geometryVars>>

TableNext == Render

TableSpec == TableInit /\ [][TableNext]_vars

(***************************************************************************)
(* _is_point_in_polygon on its own.                                        *)
(***************************************************************************)
GeometryInit ==
    /\ pc = "contains"
    /\ polygon \in Rectangles
    /\ point \in GridPoints
    /\ inside = FALSE
    /\ PipelineIdle
    /\ ResolverIdle
    /\ TableIdle

Contains ==
    /\ pc = "contains"
    /\ inside' = is_point_in_polygon(point, polygon)
    /\ pc' = "contained"
    /\ UNCHANGED <<point, polygon, pipelineVars, resolverVars, tableVars>>

GeometryNext == Contains

GeometrySpec == GeometryInit /\ [][GeometryNext]_vars

(***************************************************************************)
(* Properties of process_pdf (Spec).                                       *)
(***************************************************************************)
Returned == pc = "done"

\* T, the number of tables, and S, the number of paragraph chunks
NumTables == Len(result.tables)
NumTextChunks == Len(ret.chunks) - NumTables

IsPrefix(p, t) == Len(t) >= Len(p) /\ SubSeq(t, 1, Len(p)) = p

IsPageCitation(c) == IsPrefix(<<"P", "a", "g", "e", " ">>, c)

IsTableCitation(c) == IsPrefix(<<"T", "a", "b", "l", "e", ":">>, c)

\* C1: when process_pdf returns, chunks and metadatas have the same length;
\* the first S citations (S the number of surviving paragraphs) are "Page n"
\* citations, the last T (T the number of tables) are table citations, and
\* the k-th of those (from 0) is "Table: {k+1}".
C1_ChunksAndCitationsAligned ==
    Returned =>
      /\ Len(ret.chunks) = Len(ret.metadatas)
      /\ NumTextChunks = Len(extracted_paragraphs)
      /\ \A i \in 1..NumTextChunks :
           IsPageCitation(ret.metadatas[i]) /\ ~IsTableCitation(ret.metadatas[i])
      /\ \A k \in 0..(NumTables - 1) :
           /\ IsTableCitation(ret.metadatas[NumTextChunks + k + 1])
           /\ ret.metadatas[NumTextChunks + k + 1] =
                <<"T", "a", "b", "l", "e", ":", " ">> \o IntToStr(k + 1)

\* two tables and a surviving paragraph, after a paragraph was dropped
C1_Witness ==
    /\ Returned
    /\ NumTables = 2
    /\ Len(extracted_paragraphs) >= 1
    /\ Len(extracted_paragraphs) < Len(result.paragraphs)
    /\ ret.metadatas[Len(ret.metadatas)] = <<"T", "a", "b", "l", "e", ":", " ", "2">>

\* every polygon of every bounding region of every table
AllTablePolygons ==
    UNION {{result.tables[t].bounding_regions[r].polygon :
              r \in 1..Len(result.tables[t].bounding_regions)} :
           t \in 1..NumTables}

\* the centroid of the paragraph's region at index len(regions) // 2 lies
\* in some table polygon
CentroidInSomeTable(p) ==
    LET regions == p.bounding_regions
        mid == regions[(Len(regions) \div 2) + 1].polygon
        c == [x |-> SumX(mid), y |-> SumY(mid), d |-> Len(mid)]
    IN \E poly \in AllTablePolygons : is_point_in_polygon(c, poly)

\* the paragraphs of `ps` outside every table polygon, in order
RECURSIVE OutsideTables(_)
OutsideTables(ps) ==
    IF ps = <<>> THEN <<>>
    ELSE (IF CentroidInSomeTable(Head(ps)) THEN <<>> ELSE <<Head(ps).content>>)
         \o OutsideTables(Tail(ps))

\* C6: when process_pdf returns, the paragraph part of chunks is exactly the
\* contents, in order, of the paragraphs whose representative centroid is in
\* no table polygon; a paragraph whose centroid is in one is not among them.
C6_ParagraphChunksAreThoseOutsideTables ==
    Returned =>
      SubSeq(ret.chunks, 1, NumTextChunks) = OutsideTables(result.paragraphs)

\* a two-region paragraph is dropped for its second region, which lies in the
\* second table, while another paragraph is kept
C6_Witness ==
    /\ Returned
    /\ \E i \in 1..Len(result.paragraphs) :
         /\ Len(result.paragraphs[i].bounding_regions) = 2
         /\ CentroidInSomeTable(result.paragraphs[i])
    /\ NumTextChunks >= 1
    /\ NumTextChunks < Len(result.paragraphs)

NoPageNumberRole ==
    \A i \in 1..Len(extracted_paragraphs) :
       extracted_paragraphs[i].role # "pageNumber"

SomePositivePageNumber ==
    \E i \in 1..Len(extracted_paragraphs) :
       /\ extracted_paragraphs[i].role = "pageNumber"
       /\ ParseInt(extracted_paragraphs[i].content).ok
       /\ ParseInt(extracted_paragraphs[i].content).val > 0

PageMinusOne == <<"P", "a", "g", "e", " ", "-", "1">>

\* C9: with no surviving paragraph of role pageNumber, the page array is all
\* -1, the resolver returns it unchanged, process_pdf raises nothing from
\* there on and every text citation is "Page -1"; with a surviving pageNumber
\* paragraph of positive integer content, no text citation is "Page -1".
C9_DegeneratePaginationIsData ==
    /\ (pc \in {"resolve_pass1", "resolve_pass2", "resolved", "done"}
          /\ NoPageNumberRole) =>
         /\ \A i \in 1..Len(page_numbers) : page_numbers[i] = Sentinel
         /\ Len(page_numbers) = Len(extracted_paragraphs)
         /\ pc \in {"resolved", "done"} => arr = page_numbers
         /\ Returned =>
              \A i \in 1..NumTextChunks : ret.metadatas[i] = PageMinusOne
    /\ (pc = "error" /\ ret.line # 50) => ~NoPageNumberRole
    /\ (Returned /\ SomePositivePageNumber) =>
         \A i \in 1..NumTextChunks : ret.metadatas[i] # PageMinusOne

\* a document whose only page-number paragraph lies in a table: the
\* survivors carry no page number and are all cited as "Page -1"
C9_Witness ==
    /\ Returned
    /\ NoPageNumberRole
    /\ \E i \in 1..Len(result.paragraphs) :
         result.paragraphs[i].role = "pageNumber"
    /\ NumTextChunks >= 2
    /\ ret.metadatas[1] = PageMinusOne

HasEmptyTable == \E t \in 1..NumTables : result.tables[t].cells = <<>>

\* C4 as claimed: rendering a table with zero cells fails, so process_pdf on
\* an analysis result with such a table ends in an error and returns nothing.
C4_EmptyTableFails ==
    HasEmptyTable => ~Returned /\ ret.chunks = <<>> /\ ret.metadatas = <<>>

\* C4 as amended: rendering a table with zero cells does not fail; it gives
\* the header "|  |" and the separator "| --- |" of a 1x1 grid, process_pdf
\* never raises from the renderer, and when it returns, that block is the
\* chunk of the table.
C4_EmptyTableRendersOneEmptyCell ==
    /\ pc = "error" => ret.line # 152
    /\ Returned =>
         \A t \in 1..NumTables :
            result.tables[t].cells = <<>> =>
              ret.chunks[NumTextChunks + t] =
                <<"|", " ", " ", "|", "\n", "|", " ", "-", "-", "-", " ", "|">>

C4_Witness ==
    /\ Returned
    /\ HasEmptyTable
    /\ result.tables[NumTables].cells = <<>>
    /\ ret.chunks[Len(ret.chunks)] =
         <<"|", " ", " ", "|", "\n", "|", " ", "-", "-", "-", " ", "|">>

(***************************************************************************)
(* Properties of replace_with_nearest_positive (ResolverSpec).             *)
(***************************************************************************)
Resolved == pc = "resolved"

P4Input == <<-1, -1, 3, -1, 5, -1>>

\* C2 as claimed: [-1,-1,3,-1,5,-1] resolves to [3,3,3,5,5,5]; the sentinel
\* after the last known page takes the value 5 before it.
C2_TrailingTakesPreceding ==
    (Resolved /\ page_numbers = P4Input) => arr = <<3, 3, 3, 5, 5, 5>>

\* C2 as amended: [-1,-1,3,-1,5,-1] resolves to [3,3,3,5,5,3]; the sentinel
\* after the last known page takes the leftmost known value, 3.
C2_TrailingTakesLeftmost ==
    (Resolved /\ page_numbers = P4Input) => arr = <<3, 3, 3, 5, 5, 3>>

C2_Witness == Resolved /\ page_numbers = P4Input /\ arr[6] = 3

Known(i) == page_numbers[i] # Sentinel

KnownAfter(i) == \E j \in (i + 1)..Len(page_numbers) : Known(j)

AnyKnown == \E j \in 1..Len(page_numbers) : Known(j)

\* C3: a known value stays; a -1 with a known value after it takes the
\* nearest such; a -1 with none after it takes the leftmost known value of
\* the input; with no known value at all every position stays -1.
C3_ResolverOutputDetermined ==
    Resolved =>
      \A i \in 1..Len(page_numbers) :
         /\ Known(i) => arr[i] = page_numbers[i]
         /\ (~Known(i) /\ KnownAfter(i)) =>
              \E j \in (i + 1)..Len(page_numbers) :
                 /\ Known(j)
                 /\ \A k \in (i + 1)..(j - 1) : ~Known(k)
                 /\ arr[i] = page_numbers[j]
         /\ (~Known(i) /\ ~KnownAfter(i) /\ AnyKnown) =>
              \E j \in 1..Len(page_numbers) :
                 /\ Known(j)
                 /\ \A k \in 1..(j - 1) : ~Known(k)
                 /\ arr[i] = page_numbers[j]
         /\ ~AnyKnown => arr[i] = Sentinel

C3_Witness == Resolved /\ page_numbers = <<-1, 4, -1>> /\ arr = <<4, 4, 4>>

\* C8: on every input, the empty one included, the resolver comes to its
\* return, and with a list as long as its input.
C8_ResolverTerminatesSameLength ==
    <>(Resolved /\ Len(arr) = Len(page_numbers))

C8_Witness == Resolved /\ page_numbers = <<>> /\ arr = <<>>

(***************************************************************************)
(* Properties of convert_table_to_markdown (TableSpec).                    *)
(***************************************************************************)
Rendered == pc = "rendered"

\* the orderings of n items: the permutations of 1..n
Orderings ==
    [n \in 0..(MaxCells + 1) |->
       {f \in [1..n -> 1..n] : \A i, j \in 1..n : i # j => f[i] # f[j]}]

Reordered(cells, f) == [i \in 1..Len(cells) |-> cells[f[i]]]

\* C5 as claimed: every two orderings of a non-empty multiset of cells are
\* rendered to the same text, also when two cells have the same coordinates
\* and different content.
C5_AnyOrderSameText ==
    (Rendered /\ table_data # <<>>) =>
      \A f \in Orderings[Len(table_data)] :
         convert_table_to_markdown(Reordered(table_data, f)) = markdown_table

\* no two cells at the same (row, column) differ in their trimmed content
CoordinatesDetermineText(cells) ==
    \A i, j \in 1..Len(cells) :
       (cells[i].row_index = cells[j].row_index
          /\ cells[i].column_index = cells[j].column_index) =>
         strip(cells[i].content) = strip(cells[j].content)

\* C5 as amended: every two orderings of a non-empty multiset of cells are
\* rendered to the same text, provided cells that have the same coordinates
\* have the same trimmed content.
C5_AnyOrderSameTextUnlessConflict ==
    (Rendered /\ table_data # <<>> /\ CoordinatesDetermineText(table_data)) =>
      \A f \in Orderings[Len(table_data)] :
         convert_table_to_markdown(Reordered(table_data, f)) = markdown_table

\* two cells of one row, the right one given first
C5_Witness ==
    /\ Rendered
    /\ Len(table_data) = 2
    /\ table_data[1].row_index = table_data[2].row_index
    /\ table_data[1].column_index > table_data[2].column_index
    /\ table_data[1].content # table_data[2].content
    /\ markdown_table.error = "none"
    /\ markdown_table.text =
         convert_table_to_markdown(<<table_data[2], table_data[1]>>).text

\* R and C, the largest row and column index of the input
LargestRow ==
    CHOOSE r \in 0..(MaxRow + 1) :
       /\ \E i \in 1..Len(table_data) : table_data[i].row_index = r
       /\ \A i \in 1..Len(table_data) : table_data[i].row_index <= r

LargestCol ==
    CHOOSE c \in 0..(MaxCol + 1) :
       /\ \E i \in 1..Len(table_data) : table_data[i].column_index = c
       /\ \A i \in 1..Len(table_data) : table_data[i].column_index <= c

At(r, c) ==
    {i \in 1..Len(table_data) :
       table_data[i].row_index = r /\ table_data[i].column_index = c}

\* the text of the grid cell at (r, c): empty where the input has no cell,
\* else the trimmed content of the input's cell there (of the last one,
\* where the input has several)
GridText(r, c) ==
    IF At(r, c) = {} THEN <<>>
    ELSE strip(table_data[CHOOSE i \in At(r, c) : \A j \in At(r, c) : j <= i]
                 .content)

RowLine(r) ==
    <<"|", " ">>
    \o join(<<" ", "|", " ">>, [c \in 1..(LargestCol + 1) |-> GridText(r, c - 1)])
    \o <<" ", "|">>

SeparatorLine ==
    <<"|">> \o join(<<>>, [c \in 1..(LargestCol + 1) |->
                            <<" ", "-", "-", "-", " ", "|">>])

ExpectedLines ==
    [n \in 1..(LargestRow + 2) |->
       IF n = 1 THEN RowLine(0)
       ELSE IF n = 2 THEN SeparatorLine
       ELSE RowLine(n - 2)]

\* C10: for a non-empty cell set with largest row R and largest column C the
\* text is R+2 lines joined by newlines: row 0, a separator of C+1 dash
\* cells, then rows 1..R in order; each row has C+1 cells, the cell at (r,c)
\* is the trimmed content of the input cell there, or empty if there is none.
C10_DenseGridOfTrimmedCells ==
    (Rendered /\ table_data # <<>>) =>
      /\ markdown_table.error = "none"
      /\ Len(ExpectedLines) = LargestRow + 2
      /\ markdown_table.text = join(<<"\n">>, ExpectedLines)

\* the cells {(0,0,A), (0,1,B), (1,0,C)}: a 2x2 grid whose (1,1) is empty
C10_Witness ==
    /\ Rendered
    /\ table_data = ExampleTable
    /\ markdown_table.text =
         <<"|", " ", "a", " ", "|", " ", "b", " ", "|", "\n",
           "|", " ", "-", "-", "-", " ", "|", " ", "-", "-", "-", " ", "|", "\n",
           "|", " ", "a", " ", "|", " ", " ", "|">>

(***************************************************************************)
(* Properties of _is_point_in_polygon (GeometrySpec).                      *)
(***************************************************************************)
Contained == pc = "contained"

XsOf(poly) == {poly[i].x : i \in 1..Len(poly)}
YsOf(poly) == {poly[i].y : i \in 1..Len(poly)}

\* the point is strictly inside the box spanned by the vertices
StrictlyInside(pt, poly) ==
    /\ \E v \in XsOf(poly) : pt.d * v < pt.x
    /\ \E v \in XsOf(poly) : pt.x < pt.d * v
    /\ \E v \in YsOf(poly) : pt.d * v < pt.y
    /\ \E v \in YsOf(poly) : pt.y < pt.d * v

\* the point is strictly outside that box: left of, right of, below or above
StrictlyOutside(pt, poly) ==
    \/ \A v \in XsOf(poly) : pt.x < pt.d * v
    \/ \A v \in XsOf(poly) : pt.d * v < pt.x
    \/ \A v \in YsOf(poly) : pt.y < pt.d * v
    \/ \A v \in YsOf(poly) : pt.d * v < pt.y

UnitSquare == <<Pt(0, 0), Pt(1, 0), Pt(1, 1), Pt(0, 1)>>

\* C7: on the unit square the test is true of (0.5, 0.5) and false of (2, 2);
\* on every axis-aligned rectangle, in either orientation and from any
\* starting vertex, it is true of every point strictly inside and false of
\* every point strictly outside the bounding box.
C7_RectangleContainment ==
    Contained =>
      /\ (polygon = UnitSquare /\ point = [x |-> 1, y |-> 1, d |-> 2]) => inside
      /\ (polygon = UnitSquare /\ point = [x |-> 4, y |-> 4, d |-> 2]) => ~inside
      /\ StrictlyInside(point, polygon) => inside
      /\ StrictlyOutside(point, polygon) => ~inside

C7_Witness ==
    /\ Contained
    /\ polygon = UnitSquare
    /\ point = [x |-> 1, y |-> 1, d |-> 2]
    /\ inside

=============================================================================
